---- MODULE Spec2Model ----
(***************************************************************************)
(* A model of aten/src/ATen/core/TensorAccessor.h: the reference accessor  *)
(* family (TensorAccessorBase, TensorAccessor<T,N>, TensorAccessor<T,1>)   *)
(* and the packed family (PackedTensorAccessorBase,                        *)
(* PackedTensorAccessor<T,N>, PackedTensorAccessor<T,1>).                  *)
(*                                                                         *)
(* Memory is modelled explicitly.  The element buffer is buf, addressed by *)
(* integer positions; a T* is a position.  A const int64_t* is a record    *)
(* [base, field, off]: the object holding the array ("owner", or the slot  *)
(* of a packed accessor), which of its two arrays, and the element offset. *)
(* A reference accessor stores two such pointers; a packed accessor stores *)
(* the two arrays themselves.                                              *)
(***************************************************************************)
EXTENDS Integers, Sequences, FiniteSets, TLC

VARIABLES owner, buf, ref, packed, chain, obs, given, nstores

vars == <<owner, buf, ref, packed, chain, obs, given, nstores>>

(***************************************************************************)
(* Bounds of the model.                                                    *)
(***************************************************************************)
MaxN == 3          \* largest dimensionality N instantiated
MaxStride == 3     \* largest stride supplied by the owner
MaxIndex == 2      \* indices passed to operator[] are 0..MaxIndex
BufLen == 6        \* number of elements of the buffer
MaxStores == 1     \* stores through element references
MaxOwnerStores == 1 \* stores of the owner into its size/stride arrays

StrideSet == {-1, 0, 1, MaxStride}
IndexSet == 0..MaxIndex
Positions == 0..(BufLen - 1)
Slots == {"P", "Q"}
Roots == {"A"} \cup Slots
Quals == {"mut", "const"}
StoreValues == {0, 1}

\* An accessor that has not been constructed.
NoAcc == [N |-> 0]

(***************************************************************************)
(* Pointers to int64_t.                                                    *)
(***************************************************************************)
Ptr(base, field, off) == [base |-> base, field |-> field, off |-> off]

PtrAdd(p, n) == [p EXCEPT !.off = @ + n]

\* The array a pointer points into, as memory holds it now.
Array(p) == IF p.base = "owner" THEN owner[p.field] ELSE packed[p.base][p.field]

\* p[k]
Load(p, k) == Array(p)[p.off + k + 1]

(***************************************************************************)
(* TensorAccessorBase<T,N>                                                 *)
(***************************************************************************)
TensorAccessorBase(n, data_, sizes_, strides_) ==
    [N |-> n, data_ |-> data_, sizes_ |-> sizes_, strides_ |-> strides_]

stride(self, i) == Load(self.strides_, i)

size(self, i) == Load(self.sizes_, i)

data(self) == self.data_

\* A call of one of the three queries on a reference accessor.
RefQuery(self, what, i) ==
    [self |-> self,
     ret  |-> IF what = "size" THEN size(self, i)
              ELSE IF what = "stride" THEN stride(self, i)
              ELSE data(self)]

(***************************************************************************)
(* TensorAccessor<T,N> and TensorAccessor<T,1>.  A member function is an   *)
(* operator from the object (and arguments) to the object afterwards       *)
(* (self) and the value returned (ret).                                    *)
(***************************************************************************)
TensorAccessor(n, data_, sizes_, strides_) ==
    TensorAccessorBase(n, data_, sizes_, strides_)

\* The result of selecting an overload that the class does not provide, or
\* whose body does not compile when instantiated.
NoViableOverload == [error |-> "no viable operator[]"]

Compiles(r) == "error" \notin DOMAIN r.ret

\* An element reference: the position it designates, and whether it is a
\* const T& (no store goes through it) or a T&.
ElemRef(p, c) == [pos |-> p, const |-> c]

\* Mutants of TensorAccessor<T,N>::operator[]: the size pointer not advanced;
\* the offset taken from the second stride; the dimensionality lowered by
\* two; the data pointer of the indexed accessor advanced in place.
TensorAccessor_index_sizes_kept(self, i) ==
    [self |-> self,
     ret  |-> TensorAccessor(self.N - 1,
                             self.data_ + Load(self.strides_, 0) * i,
                             self.sizes_,
                             PtrAdd(self.strides_, 1))]

TensorAccessor_index_next_stride(self, i) ==
    [self |-> self,
     ret  |-> TensorAccessor(self.N - 1,
                             self.data_ + Load(self.strides_, 1) * i,
                             PtrAdd(self.sizes_, 1),
                             PtrAdd(self.strides_, 1))]

TensorAccessor_index_two_dims(self, i) ==
    [self |-> self,
     ret  |-> TensorAccessor(self.N - 2,
                             self.data_ + Load(self.strides_, 0) * i,
                             PtrAdd(self.sizes_, 1),
                             PtrAdd(self.strides_, 1))]

TensorAccessor_index_in_place(self, i) ==
    [self |-> [self EXCEPT !.data_ = @ + Load(self.strides_, 0) * i],
     ret  |-> TensorAccessor(self.N - 1,
                             self.data_ + Load(self.strides_, 0) * i,
                             PtrAdd(self.sizes_, 1),
                             PtrAdd(self.strides_, 1))]

TensorAccessor_index(self, i) ==
    [self |-> self,
     ret  |-> TensorAccessor(self.N - 1,
                             self.data_ + Load(self.strides_, 0) * i,
                             PtrAdd(self.sizes_, 1),
                             PtrAdd(self.strides_, 1))]

TensorAccessor_index_const(self, i) ==
    [self |-> self,
     ret  |-> TensorAccessor(self.N - 1,
                             self.data_ + Load(self.strides_, 0) * i,
                             PtrAdd(self.sizes_, 1),
                             PtrAdd(self.strides_, 1))]

\* Mutant of TensorAccessor<T,1>::operator[]: the stride left out.
TensorAccessor1_index_unit_stride(self, i) ==
    [self |-> self, ret |-> ElemRef(self.data_ + i, FALSE)]

TensorAccessor1_index(self, i) ==
    [self |-> self,
     ret  |-> ElemRef(self.data_ + Load(self.strides_, 0) * i, FALSE)]

\* TensorAccessor<T,1> declares no const operator[].
TensorAccessor1_index_const(self, i) ==
    [self |-> self, ret |-> NoViableOverload]

(***************************************************************************)
(* PackedTensorAccessorBase<T,N>: the constructor copies N elements of     *)
(* each array into the object.                                             *)
(***************************************************************************)
\* Mutant of the constructor's copies: the last element is not copied (the
\* storage keeps the first in its place).
StdCopy_short(first, n) ==
    [k \in 1..n |-> IF k = n THEN Load(first, 0) ELSE Load(first, k - 1)]

StdCopy(first, n) == [k \in 1..n |-> Load(first, k - 1)]

PackedTensorAccessorBase(n, data_, sizes_, strides_) ==
    [N |-> n, data_ |-> data_,
     sizes_ |-> StdCopy(sizes_, n),
     strides_ |-> StdCopy(strides_, n)]

packed_stride(self, i) == self.strides_[i + 1]

packed_size(self, i) == self.sizes_[i + 1]

\* A call of one of the two queries of a packed accessor (it has no data()).
PackedQuery(self, what, i) ==
    [self |-> self,
     ret  |-> IF what = "size" THEN packed_size(self, i) ELSE packed_stride(self, i)]

PackedTensorAccessor(n, data_, sizes_, strides_) ==
    PackedTensorAccessorBase(n, data_, sizes_, strides_)

\* Mutants of PackedTensorAccessor<T,N>::operator[]: the sub-accessor borrows
\* the arrays of the owner; the sub-accessor takes its sizes from the strides.
PackedTensorAccessor_index_borrows_owner(where, self, i) ==
    [self |-> self,
     ret  |-> TensorAccessor(self.N - 1,
                             self.data_ + self.strides_[1] * i,
                             Ptr("owner", "sizes_", 1),
                             Ptr("owner", "strides_", 1))]

PackedTensorAccessor_index_sizes_from_strides(where, self, i) ==
    [self |-> self,
     ret  |-> TensorAccessor(self.N - 1,
                             self.data_ + self.strides_[1] * i,
                             Ptr(where, "strides_", 1),
                             Ptr(where, "strides_", 1))]

\* where is the slot the object lives in: this->sizes_ + 1 points into it.
PackedTensorAccessor_index(where, self, i) ==
    [self |-> self,
     ret  |-> TensorAccessor(self.N - 1,
                             self.data_ + self.strides_[1] * i,
                             Ptr(where, "sizes_", 1),
                             Ptr(where, "strides_", 1))]

\* In the const overload this->sizes_ + 1 is a const int64_t*, and the body
\* initialises an int64_t* from it: the overload is declared, and ill-formed
\* once instantiated.
PackedTensorAccessor_index_const(where, self, i) ==
    [self |-> self, ret |-> NoViableOverload]

\* Mutant of PackedTensorAccessor<T,1>::operator[]: the data pointer left out.
PackedTensorAccessor1_index_no_base(self, i) ==
    [self |-> self, ret |-> ElemRef(self.strides_[1] * i, FALSE)]

PackedTensorAccessor1_index(self, i) ==
    [self |-> self, ret |-> ElemRef(self.data_ + self.strides_[1] * i, FALSE)]

PackedTensorAccessor1_index_const(self, i) ==
    [self |-> self, ret |-> ElemRef(self.data_ + self.strides_[1] * i, TRUE)]

\* The implicitly defined copy constructor: a member-wise copy.
PackedTensorAccessor_copy(other) == other

(***************************************************************************)
(* Overload resolution of a[i] on an object expression of constness q.     *)
(***************************************************************************)
RefSubscript(self, i, q) ==
    IF self.N >= 2
    THEN IF q = "mut" THEN TensorAccessor_index(self, i)
                      ELSE TensorAccessor_index_const(self, i)
    ELSE IF q = "mut" THEN TensorAccessor1_index(self, i)
                      ELSE TensorAccessor1_index_const(self, i)

PackedSubscript(where, self, i, q) ==
    IF self.N >= 2
    THEN IF q = "mut" THEN PackedTensorAccessor_index(where, self, i)
                      ELSE PackedTensorAccessor_index_const(where, self, i)
    ELSE IF q = "mut" THEN PackedTensorAccessor1_index(self, i)
                      ELSE PackedTensorAccessor1_index_const(self, i)

(***************************************************************************)
(* The program around the accessors: an owner holding the buffer position  *)
(* and the size/stride arrays, a reference accessor A over them, packed    *)
(* accessors in the slots P and Q, and one indexing chain at a time.       *)
(* chain.root is the accessor the chain started from, chain.idx the        *)
(* indices applied so far, chain.subs the sub-accessors they returned and  *)
(* chain.elem the element reference that ended the chain, if one did.      *)
(* obs is the value the last query returned or the last store wrote.       *)
(* given records the arrays each packed accessor was constructed from, as  *)
(* they were at that time.                                                 *)
(***************************************************************************)
NoChain == [root |-> "none", idx |-> <<>>, subs |-> <<>>, elem |-> <<>>]

NoObs == [call |-> "none"]

\* The shapes the owner may have: extents that differ from one dimension to
\* the next, ascending and descending.
Shapes(n) == {[k \in 1..n |-> k + 1], [k \in 1..n |-> n + 2 - k]}

Owners ==
    UNION {
        { [alive |-> TRUE, stores |-> 0, N |-> n, data |-> d,
           sizes_ |-> sz, strides_ |-> st] :
            d \in {0, BufLen - 1}, sz \in Shapes(n), st \in [1..n -> StrideSet] }
        : n \in 1..MaxN }

OwnerSizes == Ptr("owner", "sizes_", 0)

OwnerStrides == Ptr("owner", "strides_", 0)

Supplied == [sizes_ |-> owner.sizes_, strides_ |-> owner.strides_]

\* The owner exists and has handed out the reference accessor A.
InitOwner ==
    /\ owner \in Owners
    /\ buf = [p \in Positions |-> 10 + p]
    /\ ref = TensorAccessor(owner.N, owner.data, OwnerSizes, OwnerStrides)
    /\ chain = NoChain
    /\ obs = NoObs
    /\ nstores = 0

\* A kernel invocation: the packed accessor P has been constructed as well.
Init ==
    /\ InitOwner
    /\ packed = [s \in Slots |->
                   IF s = "P"
                   THEN PackedTensorAccessor(owner.N, owner.data, OwnerSizes, OwnerStrides)
                   ELSE NoAcc]
    /\ given = [s \in Slots |-> IF s = "P" THEN Supplied ELSE NoAcc]

\* The controlling side before any packed accessor is constructed.
InitLife ==
    /\ InitOwner
    /\ packed = [s \in Slots |-> NoAcc]
    /\ given = [s \in Slots |-> NoAcc]

\* Element stores are followed on tensors of dimensionality 1 and 2: a
\* 1-dimensional accessor is a root, or what one subscript leaves of a root.
InitWrite == Init /\ owner.N <= 2

Exists(r) == IF r = "A" THEN ref # NoAcc ELSE packed[r] # NoAcc

\* The chain may take a step on root r.
Active(r) ==
    /\ chain.elem = <<>>
    /\ \/ chain.root = "none"
       \/ chain.root = r /\ chain.subs # <<>>
    /\ Exists(r)

\* The next subscript applies to a reference-family accessor.
OnRef(r) == r = "A" \/ chain.subs # <<>>

RefTarget == IF chain.subs = <<>> THEN ref ELSE chain.subs[Len(chain.subs)]

\* The chain after a subscript with index i returned ret and left the
\* indexed sub-accessor (if it was one) as self.
Extend(r, i, self, ret) ==
    LET kept == IF chain.subs = <<>> THEN <<>>
                ELSE [chain.subs EXCEPT ![Len(chain.subs)] = self]
    IN  IF "pos" \in DOMAIN ret
        THEN [root |-> r, idx |-> Append(chain.idx, i), subs |-> kept,
              elem |-> <<ret>>]
        ELSE [root |-> r, idx |-> Append(chain.idx, i), subs |-> Append(kept, ret),
              elem |-> <<>>]

\* a[i] on a reference accessor: the root A or the last sub-accessor.
IndexRef(r, i, q) ==
    /\ Active(r)
    /\ OnRef(r)
    /\ LET res == RefSubscript(RefTarget, i, q) IN
         /\ Compiles(res)
         /\ chain' = Extend(r, i, res.self, res.ret)
         /\ ref' = IF chain.subs = <<>> THEN res.self ELSE ref
    /\ obs' = NoObs
    /\ UNCHANGED <<owner, buf, packed, given, nstores>>

\* p[i] on the packed accessor in slot r.
IndexPacked(r, i, q) ==
    /\ Active(r)
    /\ ~OnRef(r)
    /\ LET res == PackedSubscript(r, packed[r], i, q) IN
         /\ Compiles(res)
         /\ chain' = Extend(r, i, res.self, res.ret)
         /\ packed' = [packed EXCEPT ![r] = res.self]
    /\ obs' = NoObs
    /\ UNCHANGED <<owner, buf, ref, given, nstores>>

\* size(k), stride(k) or data() on a root accessor, between chains.
Query(r, what, k) ==
    /\ chain = NoChain
    /\ Exists(r)
    /\ k \in 0..(owner.N - 1)
    /\ what = "data" => r = "A" /\ k = 0
    /\ IF r = "A"
       THEN LET res == RefQuery(ref, what, k) IN
              /\ ref' = res.self
              /\ obs' = [call |-> what, on |-> r, arg |-> k, ret |-> res.ret]
              /\ UNCHANGED packed
       ELSE LET res == PackedQuery(packed[r], what, k) IN
              /\ packed' = [packed EXCEPT ![r] = res.self]
              /\ obs' = [call |-> what, on |-> r, arg |-> k, ret |-> res.ret]
              /\ UNCHANGED ref
    /\ UNCHANGED <<owner, buf, chain, given, nstores>>

\* The sub-accessors and the element reference of the chain go out of scope.
Release ==
    /\ chain # NoChain
    /\ chain' = NoChain
    /\ obs' = NoObs
    /\ UNCHANGED <<owner, buf, ref, packed, given, nstores>>

\* *ref = v through the element reference that ended the chain.  A store to
\* a position outside the buffer is undefined and is left out.
Assign(mem, e, v) == [mem EXCEPT ![e.pos] = v]

StoreElem(v) ==
    /\ chain.elem # <<>>
    /\ ~chain.elem[1].const
    /\ chain.elem[1].pos \in Positions
    /\ nstores < MaxStores
    /\ buf' = Assign(buf, chain.elem[1], v)
    /\ obs' = [call |-> "store", ret |-> v]
    /\ nstores' = nstores + 1
    /\ UNCHANGED <<owner, ref, packed, chain, given>>

\* PackedTensorAccessor<T,N> P(data, sizes, strides) on the controlling side.
ConstructPacked ==
    /\ owner.alive
    /\ packed["P"] = NoAcc
    /\ packed' = [packed EXCEPT !["P"] =
                    PackedTensorAccessor(owner.N, owner.data, OwnerSizes, OwnerStrides)]
    /\ given' = [given EXCEPT !["P"] = Supplied]
    /\ UNCHANGED <<owner, buf, ref, chain, obs, nstores>>

\* Q = P: the packed accessor is passed by value.
CopyPacked ==
    /\ packed["P"] # NoAcc
    /\ packed["Q"] = NoAcc
    /\ packed' = [packed EXCEPT !["Q"] = PackedTensorAccessor_copy(packed["P"])]
    /\ given' = [given EXCEPT !["Q"] = given["P"]]
    /\ UNCHANGED <<owner, buf, ref, chain, obs, nstores>>

\* The owner changes an element of one of its arrays, after it has handed
\* them to the packed constructor.
OwnerStore(f, k) ==
    /\ owner.alive
    /\ packed["P"] # NoAcc
    /\ owner.stores < MaxOwnerStores
    /\ k \in 1..owner.N
    /\ owner' = [owner EXCEPT ![f][k] = @ + 1, !.stores = @ + 1]
    /\ UNCHANGED <<buf, ref, packed, chain, obs, given, nstores>>

\* The owner's arrays are destroyed: their memory keeps what it held, or is
\* overwritten.
OwnerDestroy(kept, g) ==
    /\ owner.alive
    /\ packed["P"] # NoAcc
    /\ owner' = [owner EXCEPT !.alive = FALSE,
                              !.sizes_ = IF kept THEN @ ELSE [k \in 1..owner.N |-> g],
                              !.strides_ = IF kept THEN @ ELSE [k \in 1..owner.N |-> g]]
    /\ UNCHANGED <<buf, ref, packed, chain, obs, given, nstores>>

IndexRefStep == \E r \in Roots, i \in IndexSet, q \in Quals : IndexRef(r, i, q)

IndexPackedStep == \E r \in Slots, i \in IndexSet, q \in Quals : IndexPacked(r, i, q)

QueryStep == \E r \in Roots, what \in {"size", "stride", "data"}, k \in 0..(MaxN - 1) :
                Query(r, what, k)

StoreElemStep == \E v \in StoreValues : StoreElem(v)

OwnerStoreStep == \E f \in {"sizes_", "strides_"}, k \in 1..MaxN : OwnerStore(f, k)

OwnerDestroyStep == \E kept \in BOOLEAN, g \in {0, 7} : OwnerDestroy(kept, g)

\* Indexing and queries inside a kernel.
Next ==
    \/ IndexRefStep
    \/ IndexPackedStep
    \/ QueryStep
    \/ Release

Spec == Init /\ [][Next]_vars

\* Indexing, and stores through the element references it yields.
NextWrite ==
    \/ IndexRefStep
    \/ IndexPackedStep
    \/ StoreElemStep
    \/ Release

SpecWrite == InitWrite /\ [][NextWrite]_vars

\* Packed construction and copy while the owner changes and destroys its
\* arrays; the packed accessors are indexed.
NextLife ==
    \/ ConstructPacked
    \/ CopyPacked
    \/ OwnerStoreStep
    \/ OwnerDestroyStep
    \/ IndexPackedStep
    \/ Release

SpecLife == InitLife /\ [][NextLife]_vars

(***************************************************************************)
(* Properties.                                                             *)
(***************************************************************************)
\* The accessor the j-th subscript of the chain was applied to is of the
\* reference family.
RefParent(j) == chain.root = "A" \/ j >= 2

ParentRef(j) == IF j = 1 THEN ref ELSE chain.subs[j - 1]

RootN == IF chain.root = "A" THEN ref.N ELSE packed[chain.root].N

RootData == IF chain.root = "A" THEN data(ref) ELSE packed[chain.root].data_

RootStride(k) ==
    IF chain.root = "A" THEN stride(ref, k) ELSE packed_stride(packed[chain.root], k)

ParentData(j) == IF j = 1 THEN RootData ELSE data(chain.subs[j - 1])

ParentStride0(j) == IF j = 1 THEN RootStride(0) ELSE stride(chain.subs[j - 1], 0)

RECURSIVE Offset(_)
\* idx[1] * s[0] + ... + idx[n] * s[n-1] over the strides of the root.
Offset(n) == IF n = 0 THEN 0 ELSE Offset(n - 1) + chain.idx[n] * RootStride(n - 1)

IsScenario ==
    /\ owner.data = 0
    /\ owner.sizes_ = <<2, 3>>
    /\ owner.strides_ = <<3, 1>>

\* C1: a[i] on a reference accessor a of dimensionality N >= 2 has
\* dimensionality N-1, and its size(k) and stride(k) are a's size(k+1) and
\* stride(k+1) for every k in 0..N-2, whatever i is.
C1_SubDropsLeadingDimension ==
    \A j \in 1..Len(chain.subs) :
        RefParent(j) =>
            LET a == ParentRef(j)
                s == chain.subs[j]
            IN  /\ a.N >= 2
                /\ s.N = a.N - 1
                /\ \A k \in 0..(a.N - 2) :
                      /\ size(s, k) = size(a, k + 1)
                      /\ stride(s, k) = stride(a, k + 1)

C1_Witness ==
    /\ chain.root = "A"
    /\ Len(chain.subs) = 2
    /\ chain.idx = <<2, 1>>
    /\ size(chain.subs[2], 0) # size(ref, 0)
    /\ size(chain.subs[2], 0) # size(chain.subs[1], 0)

\* C2: the data position of a[i], for a of dimensionality N >= 2 of either
\* family, is a's data position plus a.stride(0) * i.
C2_SubDataOffset ==
    \A j \in 1..Len(chain.subs) :
        data(chain.subs[j]) = ParentData(j) + ParentStride0(j) * chain.idx[j]

C2_Witness ==
    /\ Len(chain.subs) = 2
    /\ chain.idx = <<2, 1>>
    /\ RootStride(0) = -1
    /\ RootStride(1) = MaxStride
    /\ data(chain.subs[2]) = RootData - 2 + MaxStride

\* C3: a packed accessor constructed from a data pointer and arrays of
\* length N returns the k-th supplied size as size(k) and the k-th supplied
\* stride as stride(k), for every k in 0..N-1.
C3_PackedRoundTrip ==
    packed["P"] # NoAcc =>
        /\ packed["P"].N = owner.N
        /\ packed["P"].data_ = owner.data
        /\ \A k \in 0..(owner.N - 1) :
              /\ packed_size(packed["P"], k) = given["P"].sizes_[k + 1]
              /\ packed_stride(packed["P"], k) = given["P"].strides_[k + 1]

C3_Witness ==
    /\ packed["P"] # NoAcc
    /\ packed["P"].N = MaxN
    /\ given["P"].sizes_ # given["P"].strides_
    /\ given["P"].strides_[1] # given["P"].strides_[MaxN]
    /\ packed_stride(packed["P"], MaxN - 1) = -1

\* C4: whatever the owner does to its arrays after a packed accessor was
\* constructed and copied, the sizes and strides read from the accessor,
\* from its copy and from a sub-accessor of either are those supplied at
\* construction.
C4_PackedSelfContained ==
    /\ \A s \in Slots :
          packed[s] # NoAcc =>
              \A k \in 0..(packed[s].N - 1) :
                  /\ packed_size(packed[s], k) = given[s].sizes_[k + 1]
                  /\ packed_stride(packed[s], k) = given[s].strides_[k + 1]
    /\ chain.root \in Slots /\ chain.subs # <<>> =>
          \A k \in 0..(packed[chain.root].N - 2) :
              /\ size(chain.subs[1], k) = given[chain.root].sizes_[k + 2]
              /\ stride(chain.subs[1], k) = given[chain.root].strides_[k + 2]

C4_Witness ==
    /\ packed["Q"] # NoAcc
    /\ chain.root = "Q"
    /\ chain.subs # <<>>
    /\ ~owner.alive
    /\ owner.stores > 0
    /\ \A k \in 1..owner.N :
          /\ owner.sizes_[k] # given["Q"].sizes_[k]
          /\ owner.strides_[k] # given["Q"].strides_[k]

\* The 1-dimensional accessor the last subscript of the chain was applied to
\* designates this position with the index it was given.
LastIndex == chain.idx[Len(chain.idx)]

ElemPosition == ParentData(Len(chain.idx)) + ParentStride0(Len(chain.idx)) * LastIndex

\* C5: a[i] on a 1-dimensional accessor of either family designates the
\* buffer element at a.data + a.stride(0) * i, and a store through it sets
\* that element to the stored value and changes no other element and no
\* accessor.
C5_ElementStore ==
    /\ [](chain.elem # <<>> => chain.elem[1].pos = ElemPosition)
    /\ [][nstores' # nstores =>
            /\ chain.elem # <<>>
            /\ buf' = [buf EXCEPT ![ElemPosition] = obs'.ret]
            /\ UNCHANGED <<owner, ref, packed, chain>>]_vars

C5_Witness ==
    /\ nstores > 0
    /\ obs.call = "store"
    /\ chain.root \in Slots
    /\ chain.subs = <<>>
    /\ RootStride(0) = -1
    /\ LastIndex = 2
    /\ buf[RootData - 2] = obs.ret
    /\ \A p \in Positions \ {RootData - 2} : buf[p] = 10 + p

\* C6: p[i] on a packed accessor p of dimensionality N >= 2 is a reference
\* accessor of dimensionality N-1 over p's own arrays from their second
\* element on, at p's data position plus p.stride(0) * i; p[0] is at the
\* original data position.
C6_PackedSubAccessor ==
    chain.root \in Slots /\ chain.subs # <<>> =>
        LET p == packed[chain.root]
            s == chain.subs[1]
        IN  /\ s.N = p.N - 1
            /\ s.sizes_ = Ptr(chain.root, "sizes_", 1)
            /\ s.strides_ = Ptr(chain.root, "strides_", 1)
            /\ \A k \in 0..(p.N - 2) :
                  /\ size(s, k) = packed_size(p, k + 1)
                  /\ stride(s, k) = packed_stride(p, k + 1)
            /\ data(s) = p.data_ + packed_stride(p, 0) * chain.idx[1]
            /\ chain.idx[1] = 0 => data(s) = owner.data
            /\ IsScenario /\ chain.idx[1] = 0 =>
                  size(s, 0) = 3 /\ stride(s, 0) = 1 /\ data(s) = 0

C6_Witness ==
    /\ IsScenario
    /\ chain.root = "P"
    /\ chain.idx = <<0>>
    /\ Len(chain.subs) = 1
    /\ size(chain.subs[1], 0) = 3
    /\ stride(chain.subs[1], 0) = 1

\* C7: a subscript or a query changes neither the accessor it is applied
\* to nor any other accessor, nor the owner's arrays, nor the buffer; a
\* subscript adds one value to the chain.
C7_IndexingIsPure ==
    [][(Len(chain'.idx) = Len(chain.idx) + 1 \/ obs'.call \in {"size", "stride", "data"}) =>
          /\ UNCHANGED <<owner, buf, ref, packed>>
          /\ SubSeq(chain'.subs, 1, Len(chain.subs)) = chain.subs
          /\ Len(chain'.idx) = Len(chain.idx) + 1 =>
                Len(chain'.subs) + Len(chain'.elem) = Len(chain.subs) + 1]_vars

C7_Witness ==
    /\ chain.root = "A"
    /\ Len(chain.idx) = MaxN
    /\ chain.idx[1] = 1
    /\ chain.elem # <<>>
    /\ stride(ref, 0) = 1
    /\ ref = TensorAccessor(owner.N, owner.data, OwnerSizes, OwnerStrides)

\* C8: after j subscripts on an N-dimensional root the chain holds an
\* accessor of dimensionality N-j >= 1 when j < N, and an element reference
\* when j = N.
C8_DimensionalityCountsDown ==
    chain.root # "none" =>
        /\ Len(chain.idx) <= RootN
        /\ \A j \in 1..Len(chain.subs) :
              chain.subs[j].N = RootN - j /\ chain.subs[j].N >= 1
        /\ IF Len(chain.idx) < RootN
           THEN chain.elem = <<>> /\ Len(chain.subs) = Len(chain.idx)
           ELSE chain.elem # <<>> /\ Len(chain.subs) = RootN - 1

C8_Witness ==
    /\ chain.root = "P"
    /\ RootN = MaxN
    /\ Len(chain.idx) = MaxN
    /\ chain.elem # <<>>
    /\ Len(chain.subs) = MaxN - 1

\* Two results of a subscript agree: both compile and give the same
\* sub-accessor, or element references to the same position.
SameResult(a, b) ==
    /\ Compiles(a)
    /\ Compiles(b)
    /\ ("pos" \in DOMAIN a.ret) = ("pos" \in DOMAIN b.ret)
    /\ IF "pos" \in DOMAIN a.ret /\ "pos" \in DOMAIN b.ret
       THEN a.ret.pos = b.ret.pos
       ELSE a.ret = b.ret

\* C9: on every accessor, of either family and any dimensionality, the
\* read-only operator[] exists and yields what the mutable one yields.
C9_ConstOverloadAgrees ==
    \A i \in IndexSet :
        /\ ref # NoAcc =>
              SameResult(RefSubscript(ref, i, "const"), RefSubscript(ref, i, "mut"))
        /\ \A s \in Slots :
              packed[s] # NoAcc =>
                  SameResult(PackedSubscript(s, packed[s], i, "const"),
                             PackedSubscript(s, packed[s], i, "mut"))
        /\ \A j \in 1..Len(chain.subs) :
              SameResult(RefSubscript(chain.subs[j], i, "const"),
                         RefSubscript(chain.subs[j], i, "mut"))

\* C10: the element reference that ends a chain of N subscripts designates
\* the root's data position plus the sum of index times stride over the
\* dimensions; in the scenario of the 2 x 3 tensor, a[1][2] is element 5,
\* which holds 15.
C10_FullChainOffset ==
    chain.elem # <<>> =>
        /\ Len(chain.idx) = RootN
        /\ chain.elem[1].pos = RootData + Offset(RootN)
        /\ IsScenario /\ chain.idx = <<1, 2>> =>
              chain.elem[1].pos = 5 /\ buf[chain.elem[1].pos] = 15

C10_Witness ==
    /\ IsScenario
    /\ chain.root = "A"
    /\ chain.idx = <<1, 2>>
    /\ chain.elem # <<>>
    /\ buf[chain.elem[1].pos] = 15

====
